---- MODULE Spec2Model ----
(***************************************************************************)
(* Model of the YAML page-composition pipeline: the component registry,    *)
(* the theme table, the shared-defaults loaders and getPageData with its   *)
(* merge, shared-style and validation steps.                               *)
(*                                                                         *)
(* JavaScript values are modelled as follows.  An object-valued field is a *)
(* record with a tag k: "undefined" stands for an absent key, undefined    *)
(* and YAML null alike (the code tests them only with !x and ??, which do  *)
(* not tell them apart); "false" is the scalar false; "obj" is a mapping.  *)
(* A string-valued field is a string, NoStr standing for an absent one.    *)
(* An error message is the sequence of the literal parts and interpolated  *)
(* values of the template string that builds it, a quoted field name being *)
(* a part of its own, so that "the message names x" is membership of x.    *)
(*                                                                         *)
(* Documents range over the shapes YAML gives the typed fields: entries,   *)
(* meta, config and style are mappings or absent, components may also be a *)
(* mapping or a string, header may also be false.                          *)
(***************************************************************************)
EXTENDS Integers, Sequences, FiniteSets, TLC

VARIABLES pageName, pageFile, navFile, themeFile,
          pc, data, sharedNav, sharedTheme, mergedData, outcome,
          round, first,
          typeArg, typeResult, themeArg, themeResult,
          call, callResult,
          pages, calls, frames

loaderVars == <<pageName, pageFile, navFile, themeFile,
                pc, data, sharedNav, sharedTheme, mergedData, outcome,
                round, first>>
concurrentVars == <<pages, calls, frames>>
styleVars ==
    <<typeArg, typeResult, themeArg, themeResult, call, callResult,
      concurrentVars>>
vars == <<pageName, pageFile, navFile, themeFile,
          pc, data, sharedNav, sharedTheme, mergedData, outcome,
          round, first,
          typeArg, typeResult, themeArg, themeResult,
          call, callResult,
          pages, calls, frames>>

\* Longest components sequence of a page document.
MaxComponents == 2

Range(s) == {s[i] : i \in 1..Len(s)}

(***************************************************************************)
(* JavaScript values                                                       *)
(***************************************************************************)
Undefined == [k |-> "undefined"]
FalseVal == [k |-> "false"]
TrueVal == [k |-> "true"]
NoStr == "<undefined>"

\* !x is false: x is an object (objects are always truthy)
Truthy(v) == v.k \notin {"undefined", "false"}
\* the left side of ?? is kept
Nullish(v) == v.k = "undefined"
\* truthiness of a string-valued field: absent and "" are falsy
TruthyStr(s) == s \notin {NoStr, ""}

\* Names every object literal inherits from Object.prototype
ObjectPrototypeKeys ==
    {"constructor", "toString", "__proto__", "hasOwnProperty", "valueOf",
     "isPrototypeOf", "propertyIsEnumerable", "toLocaleString"}

\* message of the TypeError of reading property prop of undefined
CannotRead(prop) ==
    <<"Cannot read properties of undefined (reading '", prop, "')">>
\* message of the TypeError of calling the missing method of d.prop
NotAFunction(object, prop, method) ==
    <<object, ".", prop, ".", method, " is not a function">>

(***************************************************************************)
(* Component registry                                                      *)
(***************************************************************************)
ComponentRegistry ==
    {"Hero", "Services", "Adventajes", "Brands", "Pricing", "Header",
     "Footer", "FAQ", "CallToAction", "Testimonials", "Stats", "Steps",
     "Team", "ContactForm", "Newsletter", "ContentGrid", "Features2",
     "Content", "LogoCloud", "Comparison", "Gallery"}

\* type in ComponentRegistry: own keys and inherited ones
isValidComponentType(type) ==
    type \in ComponentRegistry \cup ObjectPrototypeKeys

(***************************************************************************)
(* Theme table                                                             *)
(***************************************************************************)
ThemeNames == {"default", "ocean", "sunset", "forest", "midnight", "lavender"}

Colors(bg, gradient, text, secondary, accent, hover, border, card) ==
    [background |-> bg, backgroundGradient |-> gradient, text |-> text,
     textSecondary |-> secondary, accent |-> accent, accentHover |-> hover,
     border |-> border, cardBackground |-> card]

themes ==
    [n \in ThemeNames |->
        [k |-> "obj", name |-> n, colors |->
            CASE n = "default" ->
                   Colors("#FFFFFF", NoStr, "#161925", "#6B7280", "#1D4ED8",
                          "#1E40AF", "#E5E7EB", "#F9FAFB")
              [] n = "ocean" ->
                   Colors("#0C4A6E",
                          "linear-gradient(135deg, #0C4A6E 0%, #0369A1 100%)",
                          "#FFFFFF", "#BAE6FD", "#38BDF8", "#0EA5E9",
                          "#075985", "#164E63")
              [] n = "sunset" ->
                   Colors("#7C2D12",
                          "linear-gradient(135deg, #7C2D12 0%, #DC2626 50%, #F59E0B 100%)",
                          "#FFFFFF", "#FED7AA", "#FB923C", "#F97316",
                          "#9A3412", "#92400E")
              [] n = "forest" ->
                   Colors("#14532D",
                          "linear-gradient(135deg, #14532D 0%, #15803D 100%)",
                          "#FFFFFF", "#BBF7D0", "#4ADE80", "#22C55E",
                          "#166534", "#1A5E3A")
              [] n = "midnight" ->
                   Colors("#1E1B4B",
                          "linear-gradient(135deg, #1E1B4B 0%, #312E81 100%)",
                          "#FFFFFF", "#C4B5FD", "#A78BFA", "#8B5CF6",
                          "#4C1D95", "#2E1065")
              [] n = "lavender" ->
                   Colors("#F5F3FF",
                          "linear-gradient(135deg, #F5F3FF 0%, #EDE9FE 100%)",
                          "#581C87", "#7C3AED", "#9333EA", "#7C3AED",
                          "#DDD6FE", "#FFFFFF")]]

\* themes[themeName]: an own key, a member inherited from Object.prototype
\* (a function or an object, truthy), or undefined
LookupTheme(themeName) ==
    IF themeName \in ThemeNames THEN themes[themeName]
    ELSE IF themeName \in ObjectPrototypeKeys
    THEN [k |-> "inherited", name |-> themeName]
    ELSE Undefined

getTheme(themeName) ==
    IF ~TruthyStr(themeName) THEN themes["default"]
    ELSE IF Truthy(LookupTheme(themeName)) THEN LookupTheme(themeName)
    ELSE themes["default"]

(***************************************************************************)
(* Variant table                                                           *)
(***************************************************************************)
VariantNames == {"default", "dark", "light", "gradient", "outline"}

Classes(container, text, heading, button, card, border) ==
    [container |-> container, text |-> text, heading |-> heading,
     button |-> button, card |-> card, border |-> border]

VariantStyle(name, description, classes) ==
    [k |-> "obj", name |-> name, description |-> description,
     classes |-> classes]

variants ==
    [n \in VariantNames |->
        CASE n = "default" ->
               VariantStyle(n, "Standard solid background with default styling",
                   Classes("bg-white", "text-gray-700",
                       "text-gray-900 font-bold",
                       "bg-primary hover:bg-blue-700 text-white font-semibold px-6 py-3 rounded-lg transition-colors",
                       "bg-gray-50 border border-gray-200 rounded-lg",
                       "border-gray-200"))
          [] n = "dark" ->
               VariantStyle(n, "Dark background with light text for contrast",
                   Classes("bg-gray-900", "text-gray-300",
                       "text-white font-bold",
                       "bg-white hover:bg-gray-100 text-gray-900 font-semibold px-6 py-3 rounded-lg transition-colors",
                       "bg-gray-800 border border-gray-700 rounded-lg",
                       "border-gray-700"))
          [] n = "light" ->
               VariantStyle(n, "Light, airy background with subtle styling",
                   Classes("bg-gray-50", "text-gray-600",
                       "text-gray-800 font-bold",
                       "bg-gray-800 hover:bg-gray-900 text-white font-semibold px-6 py-3 rounded-lg transition-colors",
                       "bg-white border border-gray-100 rounded-lg shadow-sm",
                       "border-gray-100"))
          [] n = "gradient" ->
               VariantStyle(n, "Vibrant gradient background (uses theme colors)",
                   Classes("bg-gradient-to-br from-blue-600 via-purple-600 to-pink-600",
                       "text-white/90", "text-white font-bold",
                       "bg-white hover:bg-gray-100 text-gray-900 font-semibold px-6 py-3 rounded-lg transition-all hover:scale-105",
                       "bg-white/10 backdrop-blur-sm border border-white/20 rounded-lg",
                       "border-white/20"))
          [] n = "outline" ->
               VariantStyle(n, "Transparent background with outlined elements",
                   Classes("bg-transparent", "text-gray-700",
                       "text-gray-900 font-bold",
                       "bg-transparent hover:bg-gray-100 text-gray-900 font-semibold px-6 py-3 rounded-lg border-2 border-gray-900 transition-colors",
                       "bg-transparent border-2 border-gray-900 rounded-lg",
                       "border-2 border-gray-900"))]

\* variants[variantName]: an own key, a member inherited from
\* Object.prototype (truthy), or undefined
LookupVariant(variantName) ==
    IF variantName \in VariantNames THEN variants[variantName]
    ELSE IF variantName \in ObjectPrototypeKeys
    THEN [k |-> "inherited", name |-> variantName]
    ELSE Undefined

getVariant(variantName) ==
    IF ~TruthyStr(variantName) THEN variants["default"]
    ELSE IF Truthy(LookupVariant(variantName)) THEN LookupVariant(variantName)
    ELSE variants["default"]

(***************************************************************************)
(* Documents                                                               *)
(***************************************************************************)
Style(variant, theme) ==
    [k |-> "obj", variant |-> variant, theme |-> theme, customStyles |-> Undefined]
Config(style) == [k |-> "obj", style |-> style]
Entry(type, config) == [k |-> "obj", type |-> type, config |-> config]
Meta(title, description) ==
    [k |-> "obj", title |-> title, description |-> description]
PageDoc(meta, header, components, footer) ==
    [k |-> "obj", meta |-> meta, header |-> header,
     components |-> components, footer |-> footer]
Components(items) == [k |-> "seq", items |-> items]
NavDoc(header, footer) == [k |-> "obj", header |-> header, footer |-> footer]
ThemeConfig(componentThemes) ==
    [k |-> "obj", componentThemes |-> componentThemes]
\* a componentThemes mapping with the given own keys
ComponentThemes(own) == [k |-> "obj", own |-> own]
Assignment(variant, theme) ==
    [k |-> "obj", variant |-> variant, theme |-> theme]

\* an object with one more key, and an object with a key deleted
With(object, field, value) == object @@ [f \in {field} |-> value]
Without(object, field) == [f \in DOMAIN object \ {field} |-> object[f]]
Has(object, field) == field \in DOMAIN object

\* a components entry that carries the optional enabled flag
EntryEnabled(entry, enabled) == With(entry, "enabled", enabled)
IsDisabled(entry) == Has(entry, "enabled") /\ entry.enabled = FalseVal

\* a config that carries content, and the content of a Hero and of a
\* Pricing; a field that is left out is Undefined
ConfigContent(config, content) == With(config, "content", content)
Cta(text, href) == [k |-> "obj", text |-> text, href |-> href]
HeroContent(title, subTitle, primaryCta, secondaryCta) ==
    [k |-> "obj", title |-> title, subTitle |-> subTitle,
     primaryCta |-> primaryCta, secondaryCta |-> secondaryCta]
Tier(title, price, cta) ==
    [k |-> "obj", title |-> title, price |-> price, cta |-> cta]
Tiers(items) == [k |-> "seq", items |-> items]
PricingContent(title, tiers) ==
    [k |-> "obj", title |-> title, tiers |-> tiers]

\* the fields the interfaces HeroConfig and PricingConfig declare required
ContentComplete(type, config) ==
    /\ Has(config, "content")
    /\ config.content # Undefined
    /\ type = "Hero" =>
           /\ config.content.title # NoStr
           /\ config.content.subTitle # NoStr
           /\ config.content.primaryCta # Undefined
           /\ config.content.secondaryCta # Undefined
    /\ type = "Pricing" =>
           /\ config.content.title # NoStr
           /\ config.content.tiers # Undefined

\* a shared theme document that carries the optional global section
Global(defaultTheme, defaultVariant) ==
    [k |-> "obj", defaultTheme |-> defaultTheme,
     defaultVariant |-> defaultVariant]
ThemeConfigGlobal(themeConfig, global) == With(themeConfig, "global", global)

\* a file that cannot be read, and one whose YAML does not parse
Unreadable == [k |-> "unreadable"]
Malformed == [k |-> "malformed"]

Thrown(message) == [thrown |-> TRUE, message |-> message]
Returned(value) == [thrown |-> FALSE, value |-> value]

\* no accessor has been called yet
NoCall == [fn |-> "none"]
NoResult == [thrown |-> FALSE, value |-> Undefined]

(***************************************************************************)
(* Shared defaults                                                         *)
(***************************************************************************)
getSharedNavigation(file) ==
    IF file.k \in {"unreadable", "malformed"}
    THEN NavDoc(Undefined, Undefined)
    ELSE file

getSharedTheme(file) ==
    IF file.k \in {"unreadable", "malformed"}
    THEN ThemeConfig(Undefined)
    ELSE file

\* componentThemes?.[type]: an own key, an inherited one, or undefined
LookupComponentTheme(componentThemes, type) ==
    IF type \in DOMAIN componentThemes.own THEN componentThemes.own[type]
    ELSE IF type \in ObjectPrototypeKeys THEN [k |-> "inherited"]
    ELSE Undefined

\* (componentTheme.variant || componentTheme.theme)
AssignsStyle(componentTheme) ==
    /\ componentTheme.k = "obj"
    /\ TruthyStr(componentTheme.variant) \/ TruthyStr(componentTheme.theme)

\* the page-level override forgotten: the shared assignment always wins
applyToComponentOverriding(component, componentThemes) ==
    LET componentTheme ==
            LookupComponentTheme(componentThemes, component.type)
    IN IF AssignsStyle(componentTheme)
       THEN [component EXCEPT !.config.style =
                 Style(componentTheme.variant, componentTheme.theme)]
       ELSE component

\* the config replaced by one that holds the assigned style only
applyToComponentReplacingConfig(component, componentThemes) ==
    IF Truthy(component.config.style) THEN component
    ELSE LET componentTheme ==
                 LookupComponentTheme(componentThemes, component.type)
         IN IF AssignsStyle(componentTheme)
            THEN [component EXCEPT !.config =
                      Config(Style(componentTheme.variant,
                                   componentTheme.theme))]
            ELSE component

\* the test of (variant || theme) forgotten: every type the shared theme
\* names gets a style object, empty or not
applyToComponentAlwaysAssigning(component, componentThemes) ==
    IF Truthy(component.config.style) THEN component
    ELSE LET componentTheme ==
                 LookupComponentTheme(componentThemes, component.type)
         IN IF componentTheme.k = "obj"
            THEN [component EXCEPT !.config.style =
                      Style(componentTheme.variant, componentTheme.theme)]
            ELSE component

\* the body of the forEach callback, for a component that has a config
applyToComponent(component, componentThemes) ==
    IF Truthy(component.config.style) THEN component
    ELSE LET componentTheme ==
                 LookupComponentTheme(componentThemes, component.type)
         IN IF AssignsStyle(componentTheme)
            THEN [component EXCEPT !.config.style =
                      Style(componentTheme.variant, componentTheme.theme)]
            ELSE component

\* the global defaults given to the components the per-type assignments
\* leave unstyled
applyGlobalDefaults(component, themeConfig) ==
    IF Has(themeConfig, "global") /\ ~Truthy(component.config.style)
    THEN [component EXCEPT !.config.style =
             Style(themeConfig.global.defaultVariant,
                   themeConfig.global.defaultTheme)]
    ELSE component

applySharedThemeWithGlobalDefaults(d, themeConfig) ==
    IF ~Truthy(d.components) THEN Returned(d)
    ELSE IF themeConfig.k = "undefined"
    THEN Thrown(CannotRead("componentThemes"))
    ELSE IF ~Truthy(themeConfig.componentThemes) THEN Returned(d)
    ELSE IF d.components.k # "seq"
    THEN Thrown(NotAFunction("data", "components", "forEach"))
    ELSE LET items == d.components.items
         IN IF \E i \in 1..Len(items) : items[i].config.k = "undefined"
            THEN Thrown(CannotRead("style"))
            ELSE Returned([d EXCEPT !.components.items =
                     [i \in 1..Len(items) |->
                         applyGlobalDefaults(
                             applyToComponent(items[i],
                                              themeConfig.componentThemes),
                             themeConfig)]])

\* header and footer styled like the components entries
applyToNavigation(entry, componentThemes) ==
    IF Truthy(entry) /\ Truthy(entry.config)
    THEN applyToComponent(entry, componentThemes)
    ELSE entry

applySharedThemeToNavigation(d, themeConfig) ==
    IF ~Truthy(d.components) THEN Returned(d)
    ELSE IF themeConfig.k = "undefined"
    THEN Thrown(CannotRead("componentThemes"))
    ELSE IF ~Truthy(themeConfig.componentThemes) THEN Returned(d)
    ELSE IF d.components.k # "seq"
    THEN Thrown(NotAFunction("data", "components", "forEach"))
    ELSE LET items == d.components.items
         IN IF \E i \in 1..Len(items) : items[i].config.k = "undefined"
            THEN Thrown(CannotRead("style"))
            ELSE Returned([d EXCEPT
                     !.components.items =
                         [i \in 1..Len(items) |->
                             applyToComponent(items[i],
                                              themeConfig.componentThemes)],
                     !.header = applyToNavigation(d.header,
                                    themeConfig.componentThemes),
                     !.footer = applyToNavigation(d.footer,
                                    themeConfig.componentThemes)])

applySharedTheme(d, themeConfig) ==
    IF ~Truthy(d.components) THEN Returned(d)
    ELSE IF themeConfig.k = "undefined"
    THEN Thrown(CannotRead("componentThemes"))
    ELSE IF ~Truthy(themeConfig.componentThemes) THEN Returned(d)
    ELSE IF d.components.k # "seq"
    THEN Thrown(NotAFunction("data", "components", "forEach"))
    ELSE LET items == d.components.items
         IN IF \E i \in 1..Len(items) : items[i].config.k = "undefined"
            THEN Thrown(CannotRead("style"))
            ELSE Returned([d EXCEPT !.components.items =
                     [i \in 1..Len(items) |->
                         applyToComponent(items[i], themeConfig.componentThemes)]])

(***************************************************************************)
(* Header/footer merge                                                     *)
(***************************************************************************)
\* the precedence reversed: sharedNav.field ?? page.field
mergeFieldSharedFirst(own, nav, field) ==
    IF nav.k = "undefined" THEN Thrown(CannotRead(field))
    ELSE IF ~Nullish(nav[field]) THEN Returned(nav[field])
    ELSE Returned(own)

\* page.field ?? sharedNav.field
mergeField(own, nav, field) ==
    IF ~Nullish(own) THEN Returned(own)
    ELSE IF nav.k = "undefined" THEN Thrown(CannotRead(field))
    ELSE Returned(nav[field])

\* the two left operands crossed: header from data.footer, footer from
\* data.header
mergeSharedNavigationCrossed(d, nav) ==
    IF d.k = "undefined" THEN Thrown(CannotRead("header"))
    ELSE LET h == mergeField(d.footer, nav, "header")
             f == mergeField(d.header, nav, "footer")
         IN IF h.thrown THEN h
            ELSE IF f.thrown THEN f
            ELSE Returned([d EXCEPT !.header = h.value, !.footer = f.value])

mergeSharedNavigation(d, nav) ==
    IF d.k = "undefined" THEN Thrown(CannotRead("header"))
    ELSE LET h == mergeField(d.header, nav, "header")
             f == mergeField(d.footer, nav, "footer")
         IN IF h.thrown THEN h
            ELSE IF f.thrown THEN f
            ELSE Returned([d EXCEPT !.header = h.value, !.footer = f.value])

(***************************************************************************)
(* Validation                                                              *)
(***************************************************************************)
NoError == <<>>

MissingField(name, field) ==
    <<"Page \"", name, "\" is missing required \"", field, "\" field">>
MissingComponents(name) ==
    <<"Page \"", name, "\" is missing required \"", "components",
      "\" array or it's not an array">>
ComponentMissingType(name, index) ==
    <<"Page \"", name, "\": Component at index ", ToString(index),
      " is missing required \"", "type", "\" field">>
ComponentInvalidType(name, index, type) ==
    <<"Page \"", name, "\": Component at index ", ToString(index),
      " has invalid type \"", type, "\"">>
ComponentMissingConfig(name, index, type) ==
    <<"Page \"", name, "\": Component \"", type, "\" at index ",
      ToString(index), " is missing required \"", "config", "\" field">>
NavMissingType(name, which) ==
    <<"Page \"", name, "\": ", which, " is missing required \"", "type",
      "\" field">>
NavInvalidType(name, which, type) ==
    <<"Page \"", name, "\": ", which, " has invalid type \"", type, "\"">>

\* disabled entries exempted from the three checks
validateComponentExemptingDisabled(component, index, name) ==
    IF IsDisabled(component) THEN NoError
    ELSE IF ~TruthyStr(component.type) THEN ComponentMissingType(name, index)
    ELSE IF ~isValidComponentType(component.type)
    THEN ComponentInvalidType(name, index, component.type)
    ELSE IF ~Truthy(component.config)
    THEN ComponentMissingConfig(name, index, component.type)
    ELSE NoError

MissingContent(name, index, type) ==
    <<"Page \"", name, "\": Component \"", type, "\" at index ",
      ToString(index), " is missing required \"", "content", "\" fields">>

\* a fourth check added: the content the type requires
validateComponentRequiringContent(component, index, name) ==
    IF ~TruthyStr(component.type) THEN ComponentMissingType(name, index)
    ELSE IF ~isValidComponentType(component.type)
    THEN ComponentInvalidType(name, index, component.type)
    ELSE IF ~Truthy(component.config)
    THEN ComponentMissingConfig(name, index, component.type)
    ELSE IF ~ContentComplete(component.type, component.config)
    THEN MissingContent(name, index, component.type)
    ELSE NoError

\* the forEach callback of validatePageData; index counts from 0
validateComponent(component, index, name) ==
    IF ~TruthyStr(component.type) THEN ComponentMissingType(name, index)
    ELSE IF ~isValidComponentType(component.type)
    THEN ComponentInvalidType(name, index, component.type)
    ELSE IF ~Truthy(component.config)
    THEN ComponentMissingConfig(name, index, component.type)
    ELSE NoError

NavMissingConfig(name, which) ==
    <<"Page \"", name, "\": ", which, " is missing required \"", "config",
      "\" field">>

\* header and footer held to the rules of a components entry, and to
\* their own type
validateNavLikeComponent(entry, which, name) ==
    IF ~Truthy(entry) THEN NoError
    ELSE IF ~TruthyStr(entry.type) THEN NavMissingType(name, which)
    ELSE IF ~isValidComponentType(entry.type) \/ entry.type # which
    THEN NavInvalidType(name, which, entry.type)
    ELSE IF ~Truthy(entry.config) THEN NavMissingConfig(name, which)
    ELSE NoError

validateNav(entry, which, name) ==
    IF ~Truthy(entry) THEN NoError
    ELSE IF ~TruthyStr(entry.type) THEN NavMissingType(name, which)
    ELSE IF ~isValidComponentType(entry.type)
    THEN NavInvalidType(name, which, entry.type)
    ELSE NoError

\* the message of the error validatePageData throws, NoError if it returns
validatePageData(d, name) ==
    IF ~Truthy(d.meta) THEN MissingField(name, "meta")
    ELSE IF ~TruthyStr(d.meta.title) THEN MissingField(name, "meta.title")
    ELSE IF ~TruthyStr(d.meta.description)
    THEN MissingField(name, "meta.description")
    ELSE IF ~Truthy(d.components) \/ d.components.k # "seq"
    THEN MissingComponents(name)
    ELSE LET items == d.components.items
             bad == {i \in 1..Len(items) :
                        validateComponent(items[i], i - 1, name) # NoError}
         IN IF bad # {}
            THEN LET i == CHOOSE j \in bad : \A m \in bad : j <= m
                 IN validateComponent(items[i], i - 1, name)
            ELSE IF validateNav(d.header, "Header", name) # NoError
            THEN validateNav(d.header, "Header", name)
            ELSE validateNav(d.footer, "Footer", name)

\* the cause's message left out of the wrapping error
LoadFailureWithoutCause(name, message) ==
    <<"Failed to load page data for \"", name, "\"">>

\* the error passed on as it is, not wrapped
LoadFailureUnwrapped(name, message) == message

\* the catch block of getPageData: every Error is wrapped
LoadFailure(name, message) ==
    <<"Failed to load page data for \"", name, "\": ">> \o message
Rejected(name, message) ==
    [status |-> "rejected", message |-> LoadFailure(name, message)]
Fulfilled(doc) == [status |-> "fulfilled", value |-> doc]

\* what a throw statement can throw: an Error with a message, or any other
\* value
ErrorValue(message) == [isError |-> TRUE, message |-> message]
NonError(value) == [isError |-> FALSE, value |-> value]

\* the catch block of getPageData on the value it caught: the promise
\* rejects with the wrapping Error, or with the value itself
catchError(name, error) ==
    IF error.isError THEN Rejected(name, error.message)
    ELSE [status |-> "rejected", thrown |-> error]
Pending == [status |-> "pending"]

(***************************************************************************)
(* Inputs: the contents of the three files a page load reads               *)
(***************************************************************************)
PageNames == {"index", "about"}

SeqsUpTo(S, n) == UNION {[1..m -> S] : m \in 0..n}

ValidMeta == Meta("T", "D")
MetaVals ==
    {Undefined, Meta(NoStr, "D"), Meta("", NoStr), Meta("T", NoStr),
     Meta("T", ""), ValidMeta}

PlainHero == Entry("Hero", Config(Undefined))
EntryVals ==
    {PlainHero,
     Entry("Hero", Config(Style("light", NoStr))),
     Entry("Hero", Undefined),
     Entry("Bogus", Config(Undefined)),
     Entry("toString", Config(Undefined)),
     Entry(NoStr, Config(Undefined))}

ComponentsVals ==
    {Undefined, [k |-> "map"], [k |-> "str"]}
        \cup {Components(items) : items \in SeqsUpTo(EntryVals, MaxComponents)}

PageHeader == Entry("Header", Config(Style("dark", NoStr)))
PageFooter == Entry("Footer", Config(Undefined))
SharedHeader == Entry("Header", Config(Undefined))
SharedFooter == Entry("Footer", Config(Style(NoStr, "ocean")))

HeaderVals == {Undefined, FalseVal, PageHeader, Entry("Bogus", Config(Undefined))}
FooterVals == {Undefined, PageFooter}

PageFiles ==
    {Unreadable, Malformed, Undefined}
        \cup {PageDoc(m, h, c, f) :
                m \in MetaVals, h \in HeaderVals, c \in ComponentsVals,
                f \in FooterVals}

NavFiles ==
    {Unreadable, Undefined,
     NavDoc(SharedHeader, SharedFooter),
     NavDoc(Entry(NoStr, Undefined), Entry("Bogus", Undefined))}

DarkForest == Assignment("dark", "forest")
ThemeFiles ==
    {Malformed, Undefined, ThemeConfig(Undefined),
     ThemeConfig(ComponentThemes([t \in {"Hero"} |-> DarkForest]))}

(***************************************************************************)
(* getPageData, one action per statement                                   *)
(***************************************************************************)
InitLoader(pageFiles, navFiles, themeFiles) ==
    /\ pageName \in PageNames
    /\ pageFile \in pageFiles
    /\ navFile \in navFiles
    /\ themeFile \in themeFiles
    /\ pc = "start"
    /\ data = Undefined
    /\ sharedNav = Undefined
    /\ sharedTheme = Undefined
    /\ mergedData = Undefined
    /\ outcome = Pending
    /\ round = 1
    /\ first = Pending

IdleAccessors ==
    /\ typeArg = NoStr
    /\ typeResult = FALSE
    /\ themeArg = NoStr
    /\ themeResult = Undefined
    /\ call = NoCall
    /\ callResult = NoResult

\* no concurrent loads run
IdleCalls ==
    /\ pages = <<>>
    /\ calls = <<>>
    /\ frames = <<>>

IdleResolver == IdleAccessors /\ IdleCalls

Init == InitLoader(PageFiles, NavFiles, ThemeFiles) /\ IdleResolver

files == <<pageName, pageFile, navFile, themeFile, round, first>>

\* the catch block: the load ends with the wrapped error
Throw(message) ==
    /\ outcome' = Rejected(pageName, message)
    /\ pc' = "done"

ReadError(name) ==
    <<"ENOENT: no such file or directory, open '", "src/data/pages/", name,
      ".yaml", "'">>
ParseError == <<"YAMLException: bad indentation of a mapping entry">>

\* readFileSync and yaml.load of the page's own file
ReadPage ==
    /\ pc = "start"
    /\ IF pageFile.k = "unreadable"
       THEN Throw(ReadError(pageName)) /\ UNCHANGED data
       ELSE IF pageFile.k = "malformed"
       THEN Throw(ParseError) /\ UNCHANGED data
       ELSE data' = pageFile /\ pc' = "loaded" /\ UNCHANGED outcome
    /\ UNCHANGED <<files, sharedNav, sharedTheme, mergedData, styleVars>>

LoadSharedNavigation ==
    /\ pc = "loaded"
    /\ sharedNav' = getSharedNavigation(navFile)
    /\ pc' = "nav"
    /\ UNCHANGED <<files, data, sharedTheme, mergedData, outcome, styleVars>>

LoadSharedTheme ==
    /\ pc = "nav"
    /\ sharedTheme' = getSharedTheme(themeFile)
    /\ pc' = "theme"
    /\ UNCHANGED <<files, data, sharedNav, mergedData, outcome, styleVars>>

MergeNavigation ==
    /\ pc = "theme"
    /\ LET r == mergeSharedNavigation(data, sharedNav)
       IN IF r.thrown
          THEN Throw(r.message) /\ UNCHANGED mergedData
          ELSE mergedData' = r.value /\ pc' = "merged" /\ UNCHANGED outcome
    /\ UNCHANGED <<files, data, sharedNav, sharedTheme, styleVars>>

\* the components array is shared by data and mergedData
ApplySharedTheme ==
    /\ pc = "merged"
    /\ LET r == applySharedTheme(mergedData, sharedTheme)
       IN IF r.thrown
          THEN Throw(r.message) /\ UNCHANGED <<data, mergedData>>
          ELSE /\ mergedData' = r.value
               /\ data' = [data EXCEPT !.components = r.value.components]
               /\ pc' = "themed"
               /\ UNCHANGED outcome
    /\ UNCHANGED <<files, sharedNav, sharedTheme, styleVars>>

ValidatePageData ==
    /\ pc = "themed"
    /\ LET message == validatePageData(mergedData, pageName)
       IN IF message # NoError
          THEN Throw(message)
          ELSE pc' = "validated" /\ UNCHANGED outcome
    /\ UNCHANGED <<files, data, sharedNav, sharedTheme, mergedData, styleVars>>

\* the document returned straight after the shared style is applied
ReturnUnvalidated ==
    /\ pc = "themed"
    /\ outcome' = Fulfilled(mergedData)
    /\ pc' = "done"
    /\ UNCHANGED <<files, data, sharedNav, sharedTheme, mergedData, styleVars>>

Return ==
    /\ pc = "validated"
    /\ outcome' = Fulfilled(mergedData)
    /\ pc' = "done"
    /\ UNCHANGED <<files, data, sharedNav, sharedTheme, mergedData, styleVars>>

Next ==
    \/ ReadPage
    \/ LoadSharedNavigation
    \/ LoadSharedTheme
    \/ MergeNavigation
    \/ ApplySharedTheme
    \/ ValidatePageData
    \/ Return

Spec == Init /\ [][Next]_vars

(***************************************************************************)
(* The round trip: a returned document is stored as the page's document    *)
(* and the page is loaded again, the shared documents unchanged            *)
(***************************************************************************)
FeedBack ==
    /\ pc = "done"
    /\ outcome.status = "fulfilled"
    /\ round = 1
    /\ pageFile' = outcome.value
    /\ first' = outcome
    /\ round' = 2
    /\ pc' = "start"
    /\ data' = Undefined
    /\ sharedNav' = Undefined
    /\ sharedTheme' = Undefined
    /\ mergedData' = Undefined
    /\ outcome' = Pending
    /\ UNCHANGED <<pageName, navFile, themeFile, styleVars>>

NextRoundTrip == Next \/ FeedBack

SpecRoundTrip == Init /\ [][NextRoundTrip]_vars

(***************************************************************************)
(* Page loads that exercise the shared per-type styling: valid pages       *)
(* without header and footer, every shape of config.style and of the       *)
(* shared theme document                                                   *)
(***************************************************************************)
StyleVals ==
    {Undefined, Style("light", NoStr), Style(NoStr, "ocean"),
     Style(NoStr, NoStr), Style("gradient", "sunset")}
StyleEntryVals ==
    {Entry("Hero", Config(s)) : s \in StyleVals}
        \cup {Entry("Stats", Config(Undefined)),
              Entry("Stats", Config(Style("light", NoStr))),
              Entry("toString", Config(Undefined)),
              Entry("Hero", Undefined)}
StylePageFiles ==
    {PageDoc(ValidMeta, Undefined, Components(items), Undefined) :
        items \in SeqsUpTo(StyleEntryVals, MaxComponents)}
HeroThemes(a) == ThemeConfig(ComponentThemes([t \in {"Hero"} |-> a]))
StyleThemeFiles ==
    {Malformed, ThemeConfig(Undefined),
     ThemeConfig(ComponentThemes([t \in {} |-> DarkForest])),
     ThemeConfig(ComponentThemes(
         [t \in {"Hero", "Stats"} |->
             IF t = "Hero" THEN DarkForest ELSE Assignment("outline", NoStr)]))}
        \cup {HeroThemes(a) :
                a \in {DarkForest, Assignment("dark", NoStr),
                       Assignment(NoStr, "forest"), Assignment(NoStr, NoStr),
                       Assignment("", "")}}

InitStyleMerge ==
    InitLoader(StylePageFiles, {Unreadable}, StyleThemeFiles) /\ IdleResolver

SpecStyleMerge == InitStyleMerge /\ [][Next]_vars

(***************************************************************************)
(* Soft disable: pages whose entries carry the enabled flag, loaded, and   *)
(* then loaded again with the flag deleted from every entry                *)
(***************************************************************************)
FlaggedEntryVals ==
    LET base == {PlainHero, Entry("Hero", Undefined),
                 Entry("Bogus", Config(Undefined)),
                 Entry(NoStr, Config(Undefined))}
    IN base \cup {EntryEnabled(e, FalseVal) : e \in base}
            \cup {EntryEnabled(PlainHero, TrueVal)}

FlaggedPageFiles ==
    {PageDoc(ValidMeta, Undefined, Components(items), Undefined) :
        items \in SeqsUpTo(FlaggedEntryVals, MaxComponents)}

InitSoftDisable ==
    /\ InitLoader(FlaggedPageFiles,
                  {Unreadable, NavDoc(SharedHeader, SharedFooter)},
                  {ThemeConfig(Undefined), HeroThemes(DarkForest)})
    /\ IdleResolver

EraseEnabled(d) ==
    [d EXCEPT !.components.items =
        [i \in 1..Len(d.components.items) |->
            Without(d.components.items[i], "enabled")]]

\* the load starts again on the page file given
LoadAgain(file) ==
    /\ pc = "done"
    /\ round = 1
    /\ pageFile' = file
    /\ first' = outcome
    /\ round' = 2
    /\ pc' = "start"
    /\ data' = Undefined
    /\ sharedNav' = Undefined
    /\ sharedTheme' = Undefined
    /\ mergedData' = Undefined
    /\ outcome' = Pending

ReloadEnabled ==
    /\ LoadAgain(EraseEnabled(pageFile))
    /\ UNCHANGED <<pageName, navFile, themeFile, styleVars>>

NextSoftDisable == Next \/ ReloadEnabled

SpecSoftDisable == InitSoftDisable /\ [][NextSoftDisable]_vars

(***************************************************************************)
(* Global defaults: pages loaded with a shared theme document, and then    *)
(* loaded again with the global section of that document changed, added    *)
(* or deleted                                                              *)
(***************************************************************************)
GlobalVals ==
    {Global("ocean", "dark"), Global(NoStr, "light"), Global("sunset", NoStr)}

GlobalThemeFiles ==
    LET base == {ThemeConfig(Undefined), HeroThemes(DarkForest),
                 HeroThemes(Assignment(NoStr, NoStr))}
    IN base \cup {ThemeConfigGlobal(t, g) : t \in base, g \in GlobalVals}

InitGlobalDefaults ==
    /\ InitLoader(StylePageFiles, {Unreadable}, GlobalThemeFiles)
    /\ IdleResolver

\* the theme documents that differ from file in the global section only
OtherGlobals(file) ==
    ({Without(file, "global")}
        \cup {ThemeConfigGlobal(Without(file, "global"), g) : g \in GlobalVals})
            \ {file}

ReloadWithOtherGlobal ==
    /\ LoadAgain(pageFile)
    /\ themeFile' \in OtherGlobals(themeFile)
    /\ UNCHANGED <<pageName, navFile, styleVars>>

NextGlobalDefaults == Next \/ ReloadWithOtherGlobal

SpecGlobalDefaults == InitGlobalDefaults /\ [][NextGlobalDefaults]_vars

(***************************************************************************)
(* Content: pages whose entries have no content, an incomplete content or  *)
(* a complete one, loaded, and then loaded again with every content        *)
(* deleted                                                                 *)
(***************************************************************************)
LearnMore == Cta("Learn more", "/about")
GetStarted == Cta("Get started", "/signup")
HeroContents ==
    {HeroContent("Welcome", "To the site", GetStarted, LearnMore),
     HeroContent("Welcome", "To the site", GetStarted, Undefined),
     HeroContent("Welcome", NoStr, Undefined, Undefined)}
PricingContents ==
    {PricingContent("Plans", Tiers(<<Tier("Basic", "9", "Buy")>>)),
     PricingContent("Plans", Undefined)}

ContentEntryVals ==
    {PlainHero, Entry("Pricing", Config(Undefined)), Entry("Hero", Undefined),
     Entry("Bogus", ConfigContent(Config(Undefined), Undefined))}
        \cup {Entry("Hero", ConfigContent(Config(Undefined), c)) :
                c \in HeroContents}
        \cup {Entry("Pricing", ConfigContent(Config(Undefined), c)) :
                c \in PricingContents}

ContentPageFiles ==
    {PageDoc(ValidMeta, Undefined, Components(items), Undefined) :
        items \in SeqsUpTo(ContentEntryVals, MaxComponents)}

InitContent ==
    /\ InitLoader(ContentPageFiles, {Unreadable},
                  {ThemeConfig(Undefined), HeroThemes(DarkForest)})
    /\ IdleResolver

EraseEntryContent(entry) ==
    IF Truthy(entry.config)
    THEN [entry EXCEPT !.config = Without(entry.config, "content")]
    ELSE entry

EraseContent(d) ==
    [d EXCEPT !.components.items =
        [i \in 1..Len(d.components.items) |->
            EraseEntryContent(d.components.items[i])]]

ReloadWithoutContent ==
    /\ LoadAgain(EraseContent(pageFile))
    /\ UNCHANGED <<pageName, navFile, themeFile, styleVars>>

NextContent == Next \/ ReloadWithoutContent

SpecContent == InitContent /\ [][NextContent]_vars

(***************************************************************************)
(* Concurrent loads: several getPageData calls in flight, their            *)
(* statements interleaved in every order                                   *)
(***************************************************************************)
MaxCalls == 2
CallIds == 1..MaxCalls

\* every local of getPageData on one shared activation record
SharedFrame(c) == 1

\* the activation record that holds the locals of call c
Frame(c) == c

FreshFrame ==
    [data |-> Undefined, sharedNav |-> Undefined, sharedTheme |-> Undefined,
     mergedData |-> Undefined]
FreshCall(name) == [pageName |-> name, pc |-> "start", outcome |-> Pending]

\* the locals and the position of one call, as one record
Locals(c, f) ==
    [pc |-> c.pc, outcome |-> c.outcome, data |-> f.data,
     sharedNav |-> f.sharedNav, sharedTheme |-> f.sharedTheme,
     mergedData |-> f.mergedData]

Caught(l, name, message) ==
    [l EXCEPT !.pc = "done", !.outcome = Rejected(name, message)]

\* the next statement of getPageData(name), on locals l and the contents
\* of the three files
Advance(name, l, page, nav, theme) ==
    CASE l.pc = "start" ->
           IF page.k = "unreadable" THEN Caught(l, name, ReadError(name))
           ELSE IF page.k = "malformed" THEN Caught(l, name, ParseError)
           ELSE [l EXCEPT !.data = page, !.pc = "loaded"]
      [] l.pc = "loaded" ->
           [l EXCEPT !.sharedNav = getSharedNavigation(nav), !.pc = "nav"]
      [] l.pc = "nav" ->
           [l EXCEPT !.sharedTheme = getSharedTheme(theme), !.pc = "theme"]
      [] l.pc = "theme" ->
           LET r == mergeSharedNavigation(l.data, l.sharedNav)
           IN IF r.thrown THEN Caught(l, name, r.message)
              ELSE [l EXCEPT !.mergedData = r.value, !.pc = "merged"]
      [] l.pc = "merged" ->
           LET r == applySharedTheme(l.mergedData, l.sharedTheme)
           IN IF r.thrown THEN Caught(l, name, r.message)
              ELSE [l EXCEPT !.mergedData = r.value,
                             !.data.components = r.value.components,
                             !.pc = "themed"]
      [] l.pc = "themed" ->
           LET message == validatePageData(l.mergedData, name)
           IN IF message # NoError THEN Caught(l, name, message)
              ELSE [l EXCEPT !.pc = "validated"]
      [] l.pc = "validated" ->
           [l EXCEPT !.outcome = Fulfilled(l.mergedData), !.pc = "done"]

ConcurrentPageFiles ==
    {Unreadable,
     PageDoc(ValidMeta, Undefined, Components(<<PlainHero>>), Undefined),
     PageDoc(ValidMeta, PageHeader,
             Components(<<Entry("Hero", Config(Style("light", NoStr))),
                          Entry("Bogus", Config(Undefined))>>), Undefined),
     PageDoc(ValidMeta, Undefined,
             Components(<<Entry("Stats", Config(Undefined)), PlainHero>>),
             PageFooter)}

InitConcurrent ==
    /\ InitLoader({Unreadable},
                  {Unreadable, NavDoc(SharedHeader, SharedFooter)},
                  {ThemeConfig(Undefined), HeroThemes(DarkForest)})
    /\ IdleAccessors
    /\ pages \in [PageNames -> ConcurrentPageFiles]
    /\ calls \in [CallIds -> {FreshCall(n) : n \in PageNames}]
    /\ frames = [c \in CallIds |-> FreshFrame]

\* one statement of one of the calls in flight
StepCall ==
    \E c \in CallIds :
        /\ calls[c].pc # "done"
        /\ LET name == calls[c].pageName
               l == Advance(name, Locals(calls[c], frames[Frame(c)]),
                            pages[name], navFile, themeFile)
           IN /\ calls' = [calls EXCEPT ![c].pc = l.pc,
                                        ![c].outcome = l.outcome]
              /\ frames' = [frames EXCEPT ![Frame(c)] =
                               [data |-> l.data, sharedNav |-> l.sharedNav,
                                sharedTheme |-> l.sharedTheme,
                                mergedData |-> l.mergedData]]
        /\ UNCHANGED <<loaderVars, pages, typeArg, typeResult, themeArg,
                       themeResult, call, callResult>>

NextConcurrent == StepCall

SpecConcurrent == InitConcurrent /\ [][NextConcurrent]_vars

(***************************************************************************)
(* Failures: page loads that fail at every statement that can throw, and   *)
(* the catch block on every kind of thrown value                           *)
(***************************************************************************)
FailingPageFiles ==
    {Unreadable, Malformed, Undefined,
     PageDoc(ValidMeta, Undefined, Components(<<PlainHero>>), Undefined),
     PageDoc(Undefined, Undefined, Components(<<PlainHero>>), Undefined),
     PageDoc(ValidMeta, Undefined, Components(<<Entry("Hero", Undefined)>>),
             Undefined),
     PageDoc(ValidMeta, Undefined, [k |-> "map"], Undefined),
     PageDoc(ValidMeta, Entry("Bogus", Config(Undefined)),
             Components(<<PlainHero, Entry("Bogus", Config(Undefined))>>),
             PageFooter)}

InitFailures ==
    /\ InitLoader(FailingPageFiles, {Unreadable, Undefined},
                  {Undefined, HeroThemes(DarkForest)})
    /\ IdleResolver

ThrownVals ==
    {ErrorValue(m) :
        m \in {ParseError, CannotRead("header"), <<>>, <<"boom">>}
                \cup {ReadError(n) : n \in PageNames}
                \cup {MissingField(n, "meta") : n \in PageNames}}
        \cup {NonError("boom"), NonError(""), NonError("Error: boom")}

\* the catch block entered with a thrown value
CatchThrown ==
    \E n \in PageNames, e \in ThrownVals :
        /\ call' = [fn |-> "catch", name |-> n, error |-> e]
        /\ callResult' = catchError(n, e)
        /\ UNCHANGED <<loaderVars, typeArg, typeResult, themeArg,
                       themeResult, concurrentVars>>

NextFailures == Next \/ CatchThrown

SpecFailures == InitFailures /\ [][NextFailures]_vars

(***************************************************************************)
(* Navigation: every shape of header and footer, in the page and in the    *)
(* shared navigation document                                              *)
(***************************************************************************)
NavEntryVals ==
    {PageHeader, Entry("Header", Undefined), Entry("Hero", Undefined),
     Entry("Footer", Config(Undefined)), Entry("Bogus", Config(Undefined)),
     Entry("toString", Config(Undefined)), Entry(NoStr, Config(Undefined))}

NavigationPageFiles ==
    {PageDoc(ValidMeta, h, Components(items), f) :
        h \in {Undefined} \cup NavEntryVals,
        f \in {Undefined, PageFooter, Entry("Hero", Undefined)},
        items \in SeqsUpTo({PlainHero, Entry("Bogus", Config(Undefined))},
                           MaxComponents)}

NavigationNavFiles ==
    {Unreadable, NavDoc(SharedHeader, SharedFooter),
     NavDoc(Undefined, Entry("Header", Undefined))}
        \cup {NavDoc(h, SharedFooter) :
                h \in {Entry("Bogus", Config(Undefined)),
                       Entry("toString", Config(Undefined)),
                       Entry(NoStr, Config(Undefined))}}
        \cup {NavDoc(SharedHeader, Entry("Bogus", Config(Undefined))),
              NavDoc(Entry(NoStr, Undefined), Entry("Bogus", Undefined))}

InitNavigation ==
    /\ InitLoader(NavigationPageFiles, NavigationNavFiles,
                  {ThemeConfig(Undefined), HeroThemes(DarkForest)})
    /\ IdleResolver

SpecNavigation == InitNavigation /\ [][Next]_vars

(***************************************************************************)
(* Page loads of entries without config.style under every shape of a       *)
(* shared assignment: variant only, theme only, both, neither, empty       *)
(* strings, and one that carries a customStyles key of its own             *)
(***************************************************************************)
UnstyledEntryVals ==
    {PlainHero, Entry("Stats", Config(Undefined)),
     Entry("toString", Config(Undefined)),
     Entry("Hero", Config(Style("light", NoStr)))}
UnstyledPageFiles ==
    {PageDoc(ValidMeta, Undefined, Components(items), Undefined) :
        items \in SeqsUpTo(UnstyledEntryVals, MaxComponents)}
AssignmentVals ==
    {DarkForest, Assignment("dark", NoStr), Assignment(NoStr, "forest"),
     Assignment(NoStr, NoStr), Assignment("", ""), Assignment("", "forest"),
     With(DarkForest, "customStyles", "border: none"),
     With(Assignment(NoStr, NoStr), "customStyles", "border: none")}
AssignmentThemeFiles ==
    {ThemeConfig(Undefined),
     ThemeConfig(ComponentThemes([t \in {} |-> DarkForest]))}
        \cup {HeroThemes(a) : a \in AssignmentVals}

InitAssignments ==
    InitLoader(UnstyledPageFiles, {Unreadable}, AssignmentThemeFiles)
        /\ IdleResolver

SpecAssignments == InitAssignments /\ [][Next]_vars

(***************************************************************************)
(* Calls of the registry and style accessors, on every kind of argument    *)
(***************************************************************************)
TypeStrings ==
    ComponentRegistry
        \cup {"Testimonialz", "Bogus", "hero", "", "constructor",
              "toString", "__proto__"}
\* NoStr is the absent argument
ThemeArgs ==
    ThemeNames
        \cup {NoStr, "", "nonexistent", "Ocean", "constructor", "toString",
              "__proto__"}

IdleLoader == InitLoader({Unreadable}, {Unreadable}, {Unreadable})

InitResolver == IdleLoader /\ IdleResolver

CallIsValidComponentType ==
    \E s \in TypeStrings :
        /\ typeArg' = s
        /\ typeResult' = isValidComponentType(s)
        /\ UNCHANGED <<loaderVars, themeArg, themeResult, call, callResult>>
        /\ UNCHANGED concurrentVars

CallGetTheme ==
    \E n \in ThemeArgs :
        /\ themeArg' = n
        /\ themeResult' = getTheme(n)
        /\ UNCHANGED <<loaderVars, typeArg, typeResult, call, callResult>>
        /\ UNCHANGED concurrentVars

NextResolver == CallIsValidComponentType \/ CallGetTheme

SpecResolver == InitResolver /\ [][NextResolver]_vars

(***************************************************************************)
(* getComponent                                                            *)
(***************************************************************************)
\* Object.keys(ComponentRegistry), in declaration order
getRegisteredComponents ==
    <<"Hero", "Services", "Adventajes", "Brands", "Pricing", "Header",
      "Footer", "FAQ", "CallToAction", "Testimonials", "Stats", "Steps",
      "Team", "ContactForm", "Newsletter", "ContentGrid", "Features2",
      "Content", "LogoCloud", "Comparison", "Gallery">>

\* the renderable the registry binds to a registered name
Renderable(type) == [k |-> "component", name |-> type]

\* ComponentRegistry[type]: a registered renderable, a member inherited from
\* Object.prototype (truthy), or undefined
LookupComponent(type) ==
    IF type \in ComponentRegistry THEN Renderable(type)
    ELSE IF type \in ObjectPrototypeKeys
    THEN [k |-> "inherited", name |-> type]
    ELSE Undefined

RECURSIVE JoinNames(_)
JoinNames(names) ==
    IF names = <<>> THEN <<>>
    ELSE IF Len(names) = 1 THEN names
    ELSE <<Head(names), ", ">> \o JoinNames(Tail(names))

ComponentNotFound(type) ==
    <<"Component type \"", type,
      "\" not found in registry. Available types: ">>
        \o JoinNames(getRegisteredComponents)

getComponent(type) ==
    LET component == LookupComponent(type)
    IN IF ~Truthy(component) THEN Thrown(ComponentNotFound(type))
       ELSE Returned(component)

(***************************************************************************)
(* PageRenderer                                                            *)
(***************************************************************************)
\* a config that carries layout; a layout without spacing has NoStr
Layout(spacing) == [k |-> "obj", spacing |-> spacing]
ConfigLayout(config, layout) == With(config, "layout", layout)

SpacingNames == {"none", "small", "medium", "large", "xl"}
spacingMap ==
    [n \in SpacingNames |->
        CASE n = "none" -> ""
          [] n = "small" -> "gap-y-10"
          [] n = "medium" -> "gap-y-20"
          [] n = "large" -> "gap-y-28"
          [] n = "xl" -> "gap-y-48"]

\* spacingMap[key]: an own key, a member inherited from Object.prototype
\* (truthy), or undefined
LookupSpacing(key) ==
    IF key \in SpacingNames THEN spacingMap[key]
    ELSE IF key \in ObjectPrototypeKeys THEN "[inherited]"
    ELSE NoStr

getSpacingClass(spacing) ==
    LET key == IF TruthyStr(spacing) THEN spacing ELSE "medium"
    IN IF TruthyStr(LookupSpacing(key)) THEN LookupSpacing(key)
       ELSE "gap-y-20"

\* component.config.layout?.spacing
SpacingOf(config) ==
    IF Has(config, "layout") /\ Truthy(config.layout)
    THEN config.layout.spacing
    ELSE NoStr

\* component.config.content
DataOf(config) ==
    IF Has(config, "content") THEN config.content ELSE Undefined

\* comp.enabled !== false
EnabledEntry(comp) == ~(Has(comp, "enabled") /\ comp.enabled = FalseVal)

\* component.id || `component-${index}`
IdOf(component, index) ==
    IF Has(component, "id") /\ TruthyStr(component.id) THEN <<component.id>>
    ELSE <<"component-", ToString(index)>>

\* the element the map callback returns for one enabled entry
RenderComponent(component, index) ==
    LET Component == getComponent(component.type)
    IN IF Component.thrown THEN Component
       ELSE IF ~Truthy(component.config) THEN Thrown(CannotRead("layout"))
       ELSE Returned(
                [slot |-> "main",
                 component |-> Component.value,
                 class |-> IF TruthyStr(SpacingOf(component.config))
                           THEN getSpacingClass(SpacingOf(component.config))
                           ELSE "",
                 id |-> IdOf(component, index),
                 type |-> component.type,
                 data |-> DataOf(component.config)])

\* the header or the footer block: nothing, an element, or an error
RenderNav(entry, slot) ==
    IF ~(Truthy(entry) /\ EnabledEntry(entry)) THEN Returned(<<>>)
    ELSE LET Component == getComponent(entry.type)
         IN IF Component.thrown THEN Component
            ELSE IF ~Truthy(entry.config) THEN Thrown(CannotRead("content"))
            ELSE Returned(<<[slot |-> slot,
                             component |-> Component.value,
                             type |-> entry.type,
                             data |-> DataOf(entry.config)]>>)

\* the elements of a page in document order, or the first error raised;
\* the frontmatter (the filter) runs before the template
PageRenderer(pageData) ==
    IF ~Truthy(pageData.components) THEN Thrown(CannotRead("filter"))
    ELSE IF pageData.components.k # "seq"
    THEN Thrown(NotAFunction("pageData", "components", "filter"))
    ELSE LET enabledComponents ==
                 SelectSeq(pageData.components.items, EnabledEntry)
             header == RenderNav(pageData.header, "header")
             footer == RenderNav(pageData.footer, "footer")
             main == [i \in 1..Len(enabledComponents) |->
                         RenderComponent(enabledComponents[i], i - 1)]
             failed == {i \in 1..Len(main) : main[i].thrown}
         IN IF header.thrown THEN header
            ELSE IF failed # {}
            THEN main[CHOOSE i \in failed : \A j \in failed : i <= j]
            ELSE IF footer.thrown THEN footer
            ELSE Returned(header.value
                              \o [i \in 1..Len(main) |-> main[i].value]
                              \o footer.value)

(***************************************************************************)
(* Style accessors built on getTheme and getVariant                        *)
(***************************************************************************)
\* theme.colors of what getTheme returned: an inherited member has none
HasColors(theme) == theme.k = "obj"

ThemeStyleEntries(colors) ==
    <<
        <<"--theme-bg", colors.background>>,
        <<"--theme-text", colors.text>>,
        <<"--theme-text-secondary", colors.textSecondary>>,
        <<"--theme-accent", colors.accent>>,
        <<"--theme-accent-hover", colors.accentHover>>,
        <<"--theme-border", colors.border>>
    >> \o (IF TruthyStr(colors.cardBackground)
           THEN << <<"--theme-card-bg", colors.cardBackground>> >>
           ELSE <<>>)

getThemeStyles(themeName) ==
    LET theme == getTheme(themeName)
    IN IF ~HasColors(theme) THEN Thrown(CannotRead("background"))
       ELSE Returned(ThemeStyleEntries(theme.colors))

RECURSIVE JoinEntries(_)
JoinEntries(entries) ==
    IF entries = <<>> THEN <<>>
    ELSE <<entries[1][1], ": ", entries[1][2]>>
         \o (IF Len(entries) = 1 THEN <<>>
             ELSE <<"; ">> \o JoinEntries(Tail(entries)))

getThemeStyleString(themeName) ==
    LET styles == getThemeStyles(themeName)
    IN IF styles.thrown THEN styles
       ELSE Returned(JoinEntries(styles.value))

getThemeBackground(themeName) ==
    LET theme == getTheme(themeName)
    IN IF ~HasColors(theme) THEN Thrown(CannotRead("backgroundGradient"))
       ELSE IF TruthyStr(theme.colors.backgroundGradient)
       THEN Returned(theme.colors.backgroundGradient)
       ELSE Returned(theme.colors.background)

ElementNames == {"container", "text", "heading", "button", "card", "border"}

\* variant.classes of what getVariant returned: an inherited member has none
HasClasses(variant) == variant.k = "obj"

\* element NoStr is the omitted argument, which defaults to "container"
getVariantClasses(variantName, element) ==
    LET variant == getVariant(variantName)
        role == IF element = NoStr THEN "container" ELSE element
    IN IF ~HasClasses(variant) THEN Thrown(CannotRead(role))
       ELSE IF TruthyStr(variant.classes[role])
       THEN Returned(variant.classes[role])
       ELSE Returned("")

\* String.prototype.trim on a template of parts: leading and trailing parts
\* that are empty or blank are dropped
Blank(part) == part \in {"", " "}

RECURSIVE TrimStart(_)
TrimStart(parts) ==
    IF parts = <<>> THEN <<>>
    ELSE IF Blank(Head(parts)) THEN TrimStart(Tail(parts))
    ELSE parts

RECURSIVE TrimEnd(_)
TrimEnd(parts) ==
    IF parts = <<>> THEN <<>>
    ELSE IF Blank(parts[Len(parts)])
    THEN TrimEnd(SubSeq(parts, 1, Len(parts) - 1))
    ELSE parts

mergeVariantClasses(variantName, element, customClasses) ==
    LET variantClasses == getVariantClasses(variantName, element)
    IN IF variantClasses.thrown THEN variantClasses
       ELSE IF ~TruthyStr(customClasses) THEN variantClasses
       ELSE Returned(TrimEnd(TrimStart(
                <<variantClasses.value, " ", customClasses>>)))

(***************************************************************************)
(* Rendering: pages with disabled entries, spacing and every shape of      *)
(* header, loaded and then handed to PageRenderer                          *)
(***************************************************************************)
SpacingVals == SpacingNames \cup {NoStr, "huge"}

RenderEntryVals ==
    {PlainHero, EntryEnabled(PlainHero, FalseVal),
     EntryEnabled(PlainHero, TrueVal),
     With(Entry("FAQ", Config(Undefined)), "id", "faq"),
     Entry("toString", Config(Undefined))}
        \cup {Entry("Stats", ConfigLayout(Config(Undefined), Layout(sp))) :
                sp \in SpacingVals}

RenderHeaderVals ==
    {Undefined, PageHeader, EntryEnabled(PageHeader, FalseVal),
     Entry("Header", Undefined)}
RenderFooterVals == {Undefined, PageFooter, EntryEnabled(PageFooter, FalseVal)}

RenderPageFiles ==
    {PageDoc(ValidMeta, h, Components(items), f) :
        h \in RenderHeaderVals, f \in RenderFooterVals,
        items \in SeqsUpTo(RenderEntryVals, MaxComponents)}

InitRender ==
    /\ InitLoader(RenderPageFiles, {Unreadable}, {ThemeConfig(Undefined)})
    /\ IdleResolver

\* the page template: the loaded document is passed to PageRenderer
RenderPage ==
    /\ pc = "done"
    /\ outcome.status = "fulfilled"
    /\ call = NoCall
    /\ call' = [fn |-> "PageRenderer"]
    /\ callResult' = PageRenderer(outcome.value)
    /\ UNCHANGED <<loaderVars, typeArg, typeResult, themeArg, themeResult,
                    concurrentVars>>

NextRender == Next \/ RenderPage

SpecRender == InitRender /\ [][NextRender]_vars

(***************************************************************************)
(* Frame: pages that use every optional field of the document and of its   *)
(* entries                                                                 *)
(***************************************************************************)
PageLayout(containerWidth) ==
    [k |-> "obj", containerWidth |-> containerWidth]

FullHero ==
    ConfigContent(ConfigLayout(Config(Undefined), Layout("large")),
                  HeroContent("Welcome", "To the site", GetStarted, LearnMore))

FrameEntryVals ==
    {PlainHero,
     With(EntryEnabled(Entry("Hero", FullHero), FalseVal), "id", "top"),
     Entry("Hero", [FullHero EXCEPT !.style = Style("light", NoStr)]),
     With(Entry("Stats", ConfigLayout(Config(Undefined), Layout("none"))),
          "id", "stats"),
     Entry("Bogus", Config(Undefined))}

FramePageFiles ==
    LET plain ==
            {PageDoc(ValidMeta, h, Components(items), f) :
                h \in {Undefined, PageHeader}, f \in {Undefined, PageFooter},
                items \in SeqsUpTo(FrameEntryVals, MaxComponents)}
    IN plain \cup {With(d, "layout", PageLayout("full")) : d \in plain}

InitFrame ==
    /\ InitLoader(FramePageFiles,
                  {Unreadable, Undefined, NavDoc(SharedHeader, SharedFooter)},
                  {ThemeConfig(Undefined),
                   ThemeConfig(ComponentThemes(
                       [t \in {"Hero", "Stats", "Header", "Footer"} |-> DarkForest]))})
    /\ IdleResolver

SpecFrame == InitFrame /\ [][Next]_vars

(***************************************************************************)
(* Calls of the style accessors and of getComponent, one call at a time    *)
(***************************************************************************)
\* NoStr is the absent argument
VariantArgs ==
    VariantNames
        \cup {NoStr, "", "nonexistent", "Dark", "constructor", "toString",
              "__proto__"}

Call(fn, name) == [fn |-> fn, name |-> name]

UnchangedByAccessor ==
    UNCHANGED <<loaderVars, typeArg, typeResult, themeArg, themeResult,
                concurrentVars>>

CallGetVariant ==
    \E n \in VariantArgs :
        /\ call' = Call("getVariant", n)
        /\ callResult' = Returned(getVariant(n))
        /\ UnchangedByAccessor

CallGetThemeAccessor ==
    \E n \in ThemeArgs :
        /\ call' = Call("getTheme", n)
        /\ callResult' = Returned(getTheme(n))
        /\ UnchangedByAccessor

CallGetThemeStyles ==
    \E n \in ThemeArgs :
        /\ call' = Call("getThemeStyles", n)
        /\ callResult' = getThemeStyles(n)
        /\ UnchangedByAccessor

CallGetThemeStyleString ==
    \E n \in ThemeArgs :
        /\ call' = Call("getThemeStyleString", n)
        /\ callResult' = getThemeStyleString(n)
        /\ UnchangedByAccessor

CallGetThemeBackground ==
    \E n \in ThemeArgs :
        /\ call' = Call("getThemeBackground", n)
        /\ callResult' = getThemeBackground(n)
        /\ UnchangedByAccessor

\* NoStr is the omitted element
ElementArgs == ElementNames \cup {NoStr}

CallGetVariantClasses ==
    \E n \in VariantArgs, e \in ElementArgs :
        /\ call' = [fn |-> "getVariantClasses", name |-> n, element |-> e]
        /\ callResult' = getVariantClasses(n, e)
        /\ UnchangedByAccessor

\* NoStr is the omitted customClasses
CustomClasses == {NoStr, "", " ", "p-4 shadow"}

CallMergeVariantClasses ==
    \E n \in VariantArgs, e \in ElementNames, c \in CustomClasses :
        /\ call' = [fn |-> "mergeVariantClasses", name |-> n, element |-> e,
                    customClasses |-> c]
        /\ callResult' = mergeVariantClasses(n, e, c)
        /\ UnchangedByAccessor

CallGetComponent ==
    \E t \in TypeStrings :
        /\ call' = Call("getComponent", t)
        /\ callResult' = getComponent(t)
        /\ UnchangedByAccessor

NextAccessors ==
    \/ CallGetVariant
    \/ CallGetComponent
    \/ CallGetThemeAccessor
    \/ CallGetThemeStyles
    \/ CallGetThemeStyleString
    \/ CallGetThemeBackground
    \/ CallGetVariantClasses
    \/ CallMergeVariantClasses

SpecAccessors == InitResolver /\ [][NextAccessors]_vars

(***************************************************************************)
(* Properties                                                              *)
(***************************************************************************)
Loaded == outcome.status = "fulfilled"
Failed == outcome.status = "rejected"
\* mergedData holds the merged document
Merged == pc \in {"merged", "themed", "validated"} \/ Loaded

\* what the shared navigation file provides for a field
NavProvides(field) ==
    IF navFile.k = "obj" THEN navFile[field] ELSE Undefined

PagePrecedence(field) ==
    IF pageFile[field] # Undefined THEN pageFile[field]
    ELSE NavProvides(field)

\* C1: once header and footer are merged, and in every document returned,
\* each of the two fields is the page's own value when the page has one,
\* else the shared navigation's when it provides one, else absent.
HeaderFooterPrecedence ==
    Merged =>
        /\ mergedData.header = PagePrecedence("header")
        /\ mergedData.footer = PagePrecedence("footer")
        /\ Loaded => /\ outcome.value.header = PagePrecedence("header")
                     /\ outcome.value.footer = PagePrecedence("footer")

\* a page with its own header and no footer is returned with its header
\* and the shared footer, the shared navigation providing both fields
HeaderFooterPrecedenceWitness ==
    /\ Loaded
    /\ navFile = NavDoc(SharedHeader, SharedFooter)
    /\ pageFile.header = PageHeader
    /\ pageFile.footer = Undefined
    /\ outcome.value.header = PageHeader
    /\ outcome.value.footer = SharedFooter

\* applySharedTheme has returned and mergedData holds its result
Themed == pc \in {"themed", "validated"} \/ Loaded

\* what the shared theme file assigns to a component type
SharedAssignment(type) ==
    IF /\ themeFile.k = "obj"
       /\ themeFile.componentThemes.k = "obj"
       /\ type \in DOMAIN themeFile.componentThemes.own
    THEN themeFile.componentThemes.own[type]
    ELSE Assignment(NoStr, NoStr)

SharedStyleOf(original, result) ==
    LET a == SharedAssignment(original.type)
    IN IF original.config = Undefined THEN result = original
       ELSE IF original.config.style # Undefined THEN result = original
       ELSE IF a.variant \notin {NoStr, ""} \/ a.theme \notin {NoStr, ""}
       THEN /\ result.config.style.variant = a.variant
            /\ result.config.style.theme = a.theme
            /\ result.config.style.customStyles = Undefined
            /\ result.type = original.type
       ELSE result = original

\* C2: after applySharedTheme, every entry that had a config.style is
\* exactly as the page wrote it; every entry without one carries the
\* variant and theme the shared theme document assigns to its type, if it
\* assigns any; every other entry is still without a style.
SharedStylePerType ==
    (Themed /\ pageFile.components.k = "seq") =>
        LET original == pageFile.components.items
            result == mergedData.components.items
        IN /\ Len(result) = Len(original)
           /\ \A i \in 1..Len(original) :
                SharedStyleOf(original[i], result[i])

\* a loaded page whose first entry kept its own style and whose second
\* entry received {variant: "dark", theme: "forest"} from the shared theme
SharedStylePerTypeWitness ==
    /\ Loaded
    /\ themeFile = HeroThemes(DarkForest)
    /\ pageFile.components.items =
           <<Entry("Hero", Config(Style(NoStr, NoStr))), PlainHero>>
    /\ outcome.value.components.items =
           <<Entry("Hero", Config(Style(NoStr, NoStr))),
             Entry("Hero", Config(Style("dark", "forest")))>>

\* C3: loading again the document a successful load returned, with the
\* shared documents unchanged, succeeds and returns an equal document.
RoundTripIdempotent ==
    (round = 2 /\ pc = "done") => outcome = first

\* a second load has returned a document whose header came from the shared
\* navigation and whose first entry was styled by the shared theme
RoundTripIdempotentWitness ==
    /\ round = 2
    /\ pc = "done"
    /\ Loaded
    /\ outcome.value.header = SharedHeader
    /\ outcome.value.footer = PageFooter
    /\ outcome.value.components.items =
           <<Entry("Hero", Config(Style("dark", "forest")))>>

(***************************************************************************)
(* The validation rules as the specification lists them, decided with      *)
(* membership in the registry's own 21 names                               *)
(***************************************************************************)
\* the shared files are mappings, or are missing or unparseable
SharedDocumentsPresent ==
    /\ navFile.k \in {"obj", "unreadable", "malformed"}
    /\ themeFile.k \in {"obj", "unreadable", "malformed"}

\* a first load of a page file that parsed to a mapping has ended
EndedOnDocument == pc = "done" /\ round = 1 /\ pageFile.k = "obj"

Names(message) == Range(message)

\* the document the validation rules apply to
MergedPage ==
    [pageFile EXCEPT !.header = PagePrecedence("header"),
                     !.footer = PagePrecedence("footer")]

MissingMetaFields(meta) ==
    IF meta = Undefined THEN {"meta"}
    ELSE {f \in {"meta.title"} : meta.title \in {NoStr, ""}}
            \cup {f \in {"meta.description"} : meta.description \in {NoStr, ""}}

ObeysEntryRules(entry) ==
    /\ entry.type \in ComponentRegistry
    /\ entry.config # Undefined

\* the rule an entry violates first: type present, type registered, config
EntryViolation(entry, index, name) ==
    IF entry.type \in {NoStr, ""} THEN ComponentMissingType(name, index)
    ELSE IF entry.type \notin ComponentRegistry
    THEN ComponentInvalidType(name, index, entry.type)
    ELSE IF entry.config = Undefined
    THEN ComponentMissingConfig(name, index, entry.type)
    ELSE NoError

NavViolation(entry, which, name) ==
    IF entry \in {Undefined, FalseVal} THEN NoError
    ELSE IF entry.type \in {NoStr, ""} THEN NavMissingType(name, which)
    ELSE IF entry.type \notin ComponentRegistry
    THEN NavInvalidType(name, which, entry.type)
    ELSE NoError

\* every violation of d, in the order of the rules
ViolationsInOrder(d, name) ==
    LET meta == IF d.meta = Undefined
                THEN <<MissingField(name, "meta")>>
                ELSE (IF d.meta.title \in {NoStr, ""}
                      THEN <<MissingField(name, "meta.title")>> ELSE <<>>)
                     \o (IF d.meta.description \in {NoStr, ""}
                         THEN <<MissingField(name, "meta.description")>>
                         ELSE <<>>)
        entries == IF d.components.k # "seq"
                   THEN <<MissingComponents(name)>>
                   ELSE [i \in 1..Len(d.components.items) |->
                            EntryViolation(d.components.items[i], i - 1, name)]
        nav == <<NavViolation(d.header, "Header", name),
                 NavViolation(d.footer, "Footer", name)>>
    IN SelectSeq(meta \o entries \o nav, LAMBDA m : m # NoError)

\* C4: a page whose meta, meta.title or meta.description is missing or
\* empty fails to load, and the error names the page and a missing field,
\* whatever else the page and the shared documents hold.
MissingMetaReported ==
    (EndedOnDocument /\ SharedDocumentsPresent
        /\ MissingMetaFields(pageFile.meta) # {}) =>
        /\ Failed
        /\ pageName \in Names(outcome.message)
        /\ MissingMetaFields(pageFile.meta) \cap Names(outcome.message) # {}

\* the first entry that violates a rule is entry i, by an unregistered type
FirstUnregistered(items, i) ==
    /\ items[i].type \notin {NoStr, ""}
    /\ items[i].type \notin ComponentRegistry
    /\ \A j \in 1..(i - 1) : ObeysEntryRules(items[j])

\* C5: with valid meta, an entry at index i whose type is not a registered
\* name, no earlier entry violating a rule, makes the load fail with an
\* error that names the page, the index and the type.
UnregisteredTypeReported ==
    (EndedOnDocument /\ SharedDocumentsPresent
        /\ MissingMetaFields(pageFile.meta) = {}
        /\ pageFile.components.k = "seq") =>
        \A i \in 1..Len(pageFile.components.items) :
            FirstUnregistered(pageFile.components.items, i) =>
                /\ Failed
                /\ {pageName, ToString(i - 1),
                    pageFile.components.items[i].type}
                       \subseteq Names(outcome.message)

\* the first entry that violates a rule is entry i, by its missing config
FirstMissingConfig(items, i) ==
    /\ items[i].type \in ComponentRegistry
    /\ items[i].config = Undefined
    /\ \A j \in 1..(i - 1) : ObeysEntryRules(items[j])

\* C6: with valid meta, an entry at index i with a registered type and no
\* config makes the load fail with the validation error that names the
\* page, the "config" field and the index, for any shared theme document.
MissingConfigReported ==
    (EndedOnDocument /\ SharedDocumentsPresent
        /\ MissingMetaFields(pageFile.meta) = {}
        /\ pageFile.components.k = "seq") =>
        \A i \in 1..Len(pageFile.components.items) :
            FirstMissingConfig(pageFile.components.items, i) =>
                outcome =
                    Rejected(pageName,
                        ComponentMissingConfig(pageName, i - 1,
                            pageFile.components.items[i].type))

\* C7: with valid meta, a components field that is absent or not a
\* sequence makes the load fail with an error naming the page and the
\* "components" field, and an empty components sequence loads, for any
\* shared theme document.
ComponentsFieldChecked ==
    (EndedOnDocument /\ navFile.k \in {"obj", "unreadable", "malformed"}
        /\ MissingMetaFields(pageFile.meta) = {}) =>
        /\ pageFile.components.k # "seq" =>
              /\ Failed
              /\ {pageName, "components"} \subseteq Names(outcome.message)
        /\ (/\ pageFile.components = Components(<<>>)
            /\ ViolationsInOrder(MergedPage, pageName) = <<>>) =>
              /\ Loaded
              /\ outcome.value.components = Components(<<>>)

\* C8: when the merged document violates several rules, the load fails
\* with the error of the first of them in the order meta, meta.title,
\* meta.description, components, the entries by index (type present, type
\* registered, config present), header, footer.
FailFastInOrder ==
    (EndedOnDocument /\ SharedDocumentsPresent) =>
        LET violations == ViolationsInOrder(MergedPage, pageName)
        IN Len(violations) >= 2 =>
               outcome = Rejected(pageName, violations[1])

\* C9: isValidComponentType answers true exactly for the 21 registered
\* names, and false for every other string, the names of inherited object
\* properties included.
IsValidTypeIsMembership ==
    typeResult = (typeArg \in ComponentRegistry)

\* C10: getTheme returns the palette of the name for each of the six theme
\* names, and the default palette for an absent name and every other
\* string, the names of inherited object properties included.
GetThemeExactOrDefault ==
    themeResult # Undefined =>
        themeResult =
            IF themeArg \in ThemeNames THEN themes[themeArg]
            ELSE themes["default"]

\* C11: getVariant returns the descriptor of the name for each of the five
\* variant names, and the default descriptor for an absent name and every
\* other string, the names of inherited object properties included.
GetVariantExactOrDefault ==
    call.fn = "getVariant" =>
        callResult =
            Returned(IF call.name \in VariantNames THEN variants[call.name]
                     ELSE variants["default"])

StyleAccessors ==
    {"getTheme", "getThemeStyles", "getThemeStyleString",
     "getThemeBackground", "getVariant", "getVariantClasses",
     "mergeVariantClasses"}

\* C12: style resolution never fails: whatever theme or variant name (any
\* string, or none) and element role it is given, none of the seven style
\* accessors throws.
StyleResolutionNeverThrows ==
    call.fn \in StyleAccessors => ~callResult.thrown

\* C16: getComponent returns the renderable bound to the type for each of the
\* 21 registered names; for every other type string it fails with an error
\* that contains the requested type and lists all registered names; it never
\* returns anything but a registered renderable.
GetComponentOrUnknownTypeError ==
    call.fn = "getComponent" =>
        IF call.name \in ComponentRegistry
        THEN callResult = Returned(Renderable(call.name))
        ELSE /\ callResult.thrown
             /\ call.name \in Range(callResult.message)
             /\ ComponentRegistry \subseteq Range(callResult.message)

\* a page document that violates none of the validation rules
ValidPage ==
    /\ pageFile.k = "obj"
    /\ ViolationsInOrder(pageFile, pageName) = <<>>

\* the shared document was not obtained: the file is missing or unreadable,
\* its YAML does not parse, or it parses to no mapping (an empty file)
NotObtained(file) == file.k \in {"unreadable", "malformed", "undefined"}
Obtained(file) == file.k \in {"obj", "unreadable", "malformed"}

\* C13: whatever state the shared navigation document is in (missing,
\* unreadable, unparseable, or parsing to no mapping, as an empty file does),
\* loading an otherwise valid page that has no header or footer of its own
\* succeeds and returns the page with header and footer absent.
SharedNavigationNeverFatal ==
    (EndedOnDocument /\ ValidPage /\ Obtained(themeFile)
        /\ NotObtained(navFile)
        /\ pageFile.header = Undefined /\ pageFile.footer = Undefined) =>
        /\ Loaded
        /\ outcome.value.header = Undefined
        /\ outcome.value.footer = Undefined

\* C14: whatever state the shared theme document is in (missing, unreadable,
\* unparseable, or parsing to no mapping, as an empty file does), loading an
\* otherwise valid page succeeds and returns its components with no shared
\* styling applied.
SharedThemeNeverFatal ==
    (EndedOnDocument /\ ValidPage /\ Obtained(navFile)
        /\ NotObtained(themeFile)) =>
        /\ Loaded
        /\ outcome.value.components = pageFile.components

\* the message of the error the read or the parse of the page file raises
UnderlyingCause ==
    IF pageFile.k = "unreadable" THEN ReadError(pageName) ELSE ParseError

EndsWith(message, suffix) ==
    /\ Len(message) >= Len(suffix)
    /\ SubSeq(message, Len(message) - Len(suffix) + 1, Len(message)) = suffix

\* what precedes the suffix
Before(message, suffix) == SubSeq(message, 1, Len(message) - Len(suffix))

\* C15: when the page's own document cannot be read or cannot be parsed, the
\* load fails, returns no document, and the error message holds the page
\* name followed by the message of the underlying cause.
PageFailureReported ==
    (pc = "done" /\ round = 1 /\ pageFile.k \in {"unreadable", "malformed"}) =>
        /\ Failed
        /\ EndsWith(outcome.message, UnderlyingCause)
        /\ pageName \in Range(Before(outcome.message, UnderlyingCause))

PageFailureReportedWitness ==
    /\ pc = "done"
    /\ pageFile = Malformed
    /\ pageName = "about"
    /\ outcome = Rejected("about", ParseError)

\* the types of the components entries, the header and the footer of d
TypesOf(d) ==
    {d.components.items[i].type : i \in 1..Len(d.components.items)}
        \cup {e.type : e \in {e \in {d.header, d.footer} : Truthy(e)}}

\* C18: in every returned document each components entry, and the header
\* and the footer when present, has one of the 21 registered names as its
\* type, so getComponent resolves each of them to a registered renderable.
ReturnedTypesRegistered ==
    (Loaded /\ round = 1) =>
        /\ TypesOf(outcome.value) \subseteq ComponentRegistry
        /\ \A t \in TypesOf(outcome.value) :
               getComponent(t) = Returned(Renderable(t))

\* the outcome with the enabled flag deleted from every returned entry
OutcomeEnabled(o) ==
    IF o.status = "fulfilled" THEN Fulfilled(EraseEnabled(o.value)) ELSE o

\* C17: a returned document holds every entry of the page at its index,
\* the disabled ones with their flag, and the load of a page ends exactly
\* as the load of the same page with no entry disabled ends: same error,
\* or the same entries with the same configurations.
SoftDisable ==
    /\ (pc = "done" /\ round = 1 /\ Loaded) =>
           LET items == pageFile.components.items
               returned == outcome.value.components.items
           IN /\ Len(returned) = Len(items)
              /\ \A i \in 1..Len(items) :
                     /\ returned[i].type = items[i].type
                     /\ Has(returned[i], "enabled") = Has(items[i], "enabled")
                     /\ IsDisabled(returned[i]) = IsDisabled(items[i])
    /\ (pc = "done" /\ round = 2) => outcome = OutcomeEnabled(first)

SoftDisableWitness ==
    /\ pc = "done"
    /\ round = 2
    /\ Loaded
    /\ Len(first.value.components.items) = 2
    /\ IsDisabled(first.value.components.items[1])
    /\ first.value.components.items[1].config.style = Style("dark", "forest")
    /\ ~Has(outcome.value.components.items[1], "enabled")

\* C19: the global section of the shared theme document has no influence:
\* two loads of the same page with shared theme documents that differ in
\* the global section only end alike, with equal documents or the same
\* error.
GlobalDefaultsUnused ==
    (pc = "done" /\ round = 2) => outcome = first

GlobalDefaultsUnusedWitness ==
    /\ pc = "done"
    /\ round = 2
    /\ Has(themeFile, "global")
    /\ themeFile.global = Global("ocean", "dark")
    /\ Loaded
    /\ first = outcome
    /\ Len(outcome.value.components.items) = 2
    /\ outcome.value.components.items[1].config.style = Style("dark", "forest")
    /\ outcome.value.components.items[2] = Entry("Stats", Config(Undefined))

\* entry has a config whose content is absent or lacks a required field
LacksContent(entry) ==
    /\ Truthy(entry.config)
    /\ ~ContentComplete(entry.type, entry.config)

OutcomeWithoutContent(o) ==
    IF o.status = "fulfilled" THEN Fulfilled(EraseContent(o.value)) ELSE o

ContentOf(entry) ==
    IF Has(entry.config, "content") THEN entry.config.content ELSE Undefined

Rendered == call.fn = "PageRenderer"

\* the elements rendered in the slot, in order
InSlot(elements, slot) == SelectSeq(elements, LAMBDA e : e.slot = slot)

\* C21: the renderer renders exactly the components entries whose enabled
\* is not false, in document order, each resolved through getComponent, and
\* renders the header and the footer if and only if they are present and
\* their enabled is not false.
RendersEnabledInOrder ==
    Rendered =>
        LET d == outcome.value
            shown == SelectSeq(d.components.items,
                               LAMBDA e : ~IsDisabled(e))
            NavShown(e) == Truthy(e) /\ ~IsDisabled(e)
        IN /\ ~callResult.thrown
           /\ LET main == InSlot(callResult.value, "main")
              IN /\ Len(main) = Len(shown)
                 /\ \A i \in 1..Len(shown) :
                        /\ main[i].type = shown[i].type
                        /\ Returned(main[i].component)
                               = getComponent(shown[i].type)
           /\ (InSlot(callResult.value, "header") # <<>>) = NavShown(d.header)
           /\ (InSlot(callResult.value, "footer") # <<>>) = NavShown(d.footer)

\* the class of the element rendered for entry i of a page none of whose
\* entries is disabled
ClassOfEntry(i) == InSlot(callResult.value, "main")[i].class

SpacingTable(spacing) ==
    CASE spacing = "none" -> ""
      [] spacing = "small" -> "gap-y-10"
      [] spacing = "medium" -> "gap-y-20"
      [] spacing = "large" -> "gap-y-28"
      [] spacing = "xl" -> "gap-y-48"

\* C22: the class of a rendered entry follows the documented table for each
\* of the five spacing values: none gives the empty class, small gap-y-10,
\* medium gap-y-20, large gap-y-28, xl gap-y-48.
SpacingClassFollowsTable ==
    (Rendered /\ ~callResult.thrown) =>
        LET items == outcome.value.components.items
        IN (\A i \in 1..Len(items) : ~IsDisabled(items[i])) =>
               \A i \in 1..Len(items) :
                   SpacingOf(items[i].config) \in SpacingNames =>
                       ClassOfEntry(i)
                           = SpacingTable(SpacingOf(items[i].config))

\* the stages of one execution, in the order the claim gives them; reading
\* the two shared documents comes between the parse and the merge
StageOrder ==
    <<"start", "loaded", "nav", "theme", "merged", "themed", "validated">>

NextStage(stage) ==
    LET i == CHOOSE j \in 1..Len(StageOrder) : StageOrder[j] = stage
    IN IF i = Len(StageOrder) THEN "done" ELSE StageOrder[i + 1]

StepInOrder ==
    /\ pc # "done"
    /\ pc' \in {NextStage(pc), "done"}
    /\ pc' = "merged" => mergedData'.components = data.components
    /\ pc' = "themed" => mergedData'.header = mergedData.header
    /\ pc' = "validated" =>
           /\ validatePageData(mergedData, pageName) = NoError
           /\ mergedData' = mergedData
    /\ IF pc' = "done"
       THEN IF pc = "validated"
            THEN outcome' = Fulfilled(mergedData)
            ELSE outcome'.status = "rejected"
       ELSE outcome' = Pending

\* C23: every execution reads and parses the page, merges the shared
\* header/footer, applies the shared style, validates the merged document
\* and returns, in this order; a document is returned only by the step that
\* follows a passed validation of that document, and an execution that ends
\* at any earlier stage rejects and returns nothing.
PipelineInOrder == [][StepInOrder]_vars

PipelineInOrderWitness ==
    /\ pc = "done"
    /\ pageName = "about"
    /\ Loaded
    /\ pageFile.header = Undefined
    /\ outcome.value.header = SharedHeader
    /\ outcome.value.footer = SharedFooter
    /\ Len(outcome.value.components.items) = 2
    /\ outcome.value.components.items[2].config.style = Style("dark", "forest")

\* the locals of a call of getPageData(name) that runs alone, when it has
\* reached the stage, or has ended before it
RECURSIVE RunAlone(_, _, _, _, _, _)
RunAlone(name, l, stage, page, nav, theme) ==
    IF l.pc \in {stage, "done"} THEN l
    ELSE RunAlone(name, Advance(name, l, page, nav, theme), stage,
                  page, nav, theme)

AloneAt(name, stage) ==
    RunAlone(name, Locals(FreshCall(name), FreshFrame), stage,
             pages[name], navFile, themeFile)

FailurePrefix(name) == <<"Failed to load page data for \"", name, "\": ">>

\* the message of the Error the statement at the stage raises
RaisedAt(stage) ==
    CASE stage = "start" ->
           IF pageFile.k = "unreadable" THEN ReadError(pageName)
           ELSE ParseError
      [] stage = "theme" -> mergeSharedNavigation(data, sharedNav).message
      [] stage = "merged" -> applySharedTheme(mergedData, sharedTheme).message
      [] stage = "themed" -> validatePageData(mergedData, pageName)

\* a step that ends the load in the catch block
FailingStep == pc # "done" /\ pc' = "done" /\ outcome'.status = "rejected"

WrappedOrRethrown ==
    /\ FailingStep =>
           outcome'.message = FailurePrefix(pageName) \o RaisedAt(pc)
    /\ call'.fn = "catch" =>
           /\ callResult'.status = "rejected"
           /\ IF call'.error.isError
              THEN callResult'.message
                       = FailurePrefix(call'.name) \o call'.error.message
              ELSE callResult'.thrown = call'.error

\* C25: every Error raised inside getPageData (read failure, parse error,
\* validation failure, TypeError during the merge) reaches the caller as an
\* Error whose message is 'Failed to load page data for "<pageName>": '
\* followed by the message of the Error raised; a thrown value that is not
\* an Error is rethrown as it is.
ErrorsWrappedWithPageName == [][WrappedOrRethrown]_vars

ErrorsWrappedWithPageNameWitness ==
    /\ pc = "done"
    /\ Failed
    /\ outcome.message = FailurePrefix(pageName) \o CannotRead("header")
    /\ call.fn = "catch"
    /\ call.error = NonError("boom")
    /\ callResult.thrown = NonError("boom")

\* the returned field is the page's own, or the shared one when the page
\* has none
OwnOrShared(field) ==
    outcome.value[field]
        = IF Nullish(pageFile[field])
          THEN getSharedNavigation(navFile)[field]
          ELSE pageFile[field]

\* the returned entry differs from the page's at most by a style it lacked
SameButStyle(returned, original) ==
    /\ Without(returned, "config") = Without(original, "config")
    /\ Without(returned.config, "style") = Without(original.config, "style")
    /\ Truthy(original.config.style) =>
           returned.config.style = original.config.style

\* C26: a successful load changes nothing but defaults: the returned meta
\* and layout equal the page's, components has the same length and order,
\* every entry keeps its type, id, enabled, config.layout and
\* config.content; only header and footer (when the page has none) and the
\* config.style of entries that had none may differ.
OnlyDefaultsChange ==
    (pc = "done" /\ round = 1 /\ Loaded) =>
        LET items == pageFile.components.items
            returned == outcome.value.components.items
        IN /\ DOMAIN outcome.value = DOMAIN pageFile
           /\ \A field \in DOMAIN pageFile \ {"header", "footer", "components"} :
                  outcome.value[field] = pageFile[field]
           /\ OwnOrShared("header")
           /\ OwnOrShared("footer")
           /\ Len(returned) = Len(items)
           /\ \A i \in 1..Len(items) : SameButStyle(returned[i], items[i])

OnlyDefaultsChangeWitness ==
    /\ pc = "done"
    /\ Loaded
    /\ Has(pageFile, "layout")
    /\ outcome.value.layout = PageLayout("full")
    /\ outcome.value.header = SharedHeader
    /\ Len(pageFile.components.items) = 2
    /\ pageFile.components.items[1]
           = With(EntryEnabled(Entry("Hero", FullHero), FalseVal), "id", "top")
    /\ outcome.value.components.items[1]
           = [pageFile.components.items[1] EXCEPT
                 !.config.style = Style("dark", "forest")]
    /\ outcome.value.components.items[2] = pageFile.components.items[2]

\* the header or footer the page document supplies, or else the shared
\* navigation document
Supplied(field) ==
    IF Nullish(pageFile[field]) THEN getSharedNavigation(navFile)[field]
    ELSE pageFile[field]

\* the shared theme document assigns a style to the type of the entry
ThemeAssigns(entry) ==
    /\ Truthy(entry)
    /\ Truthy(themeFile)
    /\ Truthy(themeFile.componentThemes)
    /\ entry.type \in DOMAIN themeFile.componentThemes.own

\* C27: shared per-type styling is never applied to the header or the
\* footer: in a returned document their config.style is what the page or
\* the shared navigation document supplied, absent included, even when
\* componentThemes has an entry for their type.
NavigationNotStyled ==
    (pc = "done" /\ round = 1 /\ Loaded) =>
        \A field \in {"header", "footer"} :
            IF Truthy(Supplied(field)) /\ Truthy(Supplied(field).config)
            THEN outcome.value[field].config.style
                     = Supplied(field).config.style
            ELSE outcome.value[field] = Supplied(field)

NavigationNotStyledWitness ==
    /\ pc = "done"
    /\ Loaded
    /\ pageFile.header = Undefined
    /\ ThemeAssigns(outcome.value.header)
    /\ ThemeAssigns(outcome.value.footer)
    /\ outcome.value.header.config.style = Undefined
    /\ outcome.value.footer = PageFooter
    /\ Len(outcome.value.components.items) = 1
    /\ outcome.value.components.items[1].config.style = Style("dark", "forest")

\* the page's meta and components entries obey the validation rules
MetaAndComponentsValid ==
    /\ pageFile.k = "obj"
    /\ MissingMetaFields(pageFile.meta) = {}
    /\ pageFile.components.k = "seq"
    /\ \A i \in 1..Len(pageFile.components.items) :
           ObeysEntryRules(pageFile.components.items[i])

\* the header and footer that are validated: the page's own, or else the
\* shared ones
SuppliedPage ==
    [pageFile EXCEPT !.header = Supplied("header"),
                     !.footer = Supplied("footer")]

\* the entry has a type that is one of the 21 registered names
RegisteredEntry(entry) == Truthy(entry) /\ entry.type \in ComponentRegistry

\* C28: validation is applied to the merged header and footer: when the
\* page has no header (footer) of its own and the shared navigation
\* supplies one whose type is missing or not registered, the load of an
\* otherwise valid page fails with the header (footer) error, the header's
\* first; when the page has its own valid header and footer, the shared
\* ones have no effect.
SharedNavigationValidated ==
    (pc = "done" /\ round = 1 /\ MetaAndComponentsValid
        /\ \A field \in {"header", "footer"} :
               Nullish(pageFile[field]) \/ RegisteredEntry(pageFile[field])) =>
        LET violations == ViolationsInOrder(SuppliedPage, pageName)
        IN IF violations # <<>>
           THEN /\ Failed
                /\ outcome.message = FailurePrefix(pageName) \o violations[1]
           ELSE /\ Loaded
                /\ outcome.value.header = Supplied("header")
                /\ outcome.value.footer = Supplied("footer")

\* C29: header and footer validation checks only that the type is present
\* and registered: a page with valid meta and components whose header or
\* footer has a registered type but no config, or a registered type other
\* than Header or Footer, loads, and the header and the footer are returned
\* as given.
NavigationTypeOnly ==
    (pc = "done" /\ round = 1 /\ MetaAndComponentsValid
        /\ RegisteredEntry(pageFile.header)
        /\ RegisteredEntry(pageFile.footer)) =>
        /\ Loaded
        /\ outcome.value.header = pageFile.header
        /\ outcome.value.footer = pageFile.footer

NavigationTypeOnlyWitness ==
    /\ pc = "done"
    /\ Loaded
    /\ outcome.value.header = Entry("Header", Undefined)
    /\ outcome.value.footer = Entry("Hero", Undefined)
    /\ navFile = NavDoc(SharedHeader, SharedFooter)

\* what applySharedTheme may leave on an entry that had a config without a
\* style, given what the shared theme assigns to the entry's type
UnstyledAfter(original, result) ==
    LET a == SharedAssignment(original.type)
    IN /\ (~TruthyStr(a.variant) /\ ~TruthyStr(a.theme)) =>
              result = original
       /\ (TruthyStr(a.variant) /\ a.theme = NoStr) =>
              result.config.style = Style(a.variant, NoStr)
       /\ (TruthyStr(a.theme) /\ a.variant = NoStr) =>
              result.config.style = Style(NoStr, a.theme)
       /\ result.config.style # Undefined =>
              result.config.style.customStyles = Undefined

\* C30: after applySharedTheme, an entry without config.style whose type
\* has no shared assignment, or an assignment with neither a non-empty
\* variant nor a non-empty theme, is exactly as the page wrote it, without
\* any style object; when the assignment defines only a variant or only a
\* theme, the style holds that value and leaves the other undefined; and a
\* style that came from the shared theme never has customStyles.
SharedStyleNeverEmpty ==
    (Themed /\ pageFile.components.k = "seq") =>
        LET original == pageFile.components.items
            result == mergedData.components.items
        IN /\ Len(result) = Len(original)
           /\ \A i \in 1..Len(original) :
                (original[i].config # Undefined
                    /\ original[i].config.style = Undefined) =>
                    UnstyledAfter(original[i], result[i])

\* a loaded page whose first entry received a style with the theme only,
\* the shared assignment defining no variant, and whose second entry,
\* of a type the shared theme does not name, is still without a style
SharedStyleNeverEmptyWitness ==
    /\ Loaded
    /\ themeFile = HeroThemes(Assignment(NoStr, "forest"))
    /\ pageFile.components.items =
           <<PlainHero, Entry("Stats", Config(Undefined))>>
    /\ outcome.value.components.items =
           <<Entry("Hero", Config(Style(NoStr, "forest"))),
             Entry("Stats", Config(Undefined))>>

====
